---- MODULE Spec2Model ----
(***************************************************************************)
(* A model of cf-dns.py, a command-line client for DNS records.  One run   *)
(* of the program is one behaviour: main reads the token and dispatches to *)
(* cmd_list, cmd_add, cmd_update or cmd_delete; every step of the model    *)
(* runs the program up to and including its next blocking interaction (an  *)
(* HTTP request with its response, or a console read).  The provider's     *)
(* responses, the user's typed lines and the terminal are the environment: *)
(* each is chosen when the program asks for it.                            *)
(*                                                                         *)
(* Python's None is the empty tuple and a present value v is <<v>>; text   *)
(* is a TLA+ string, on which Len, \o, Head, Tail and SubSeq work by       *)
(* character.                                                              *)
(***************************************************************************)
EXTENDS Integers, Sequences, FiniteSets, TLC

None == <<>>
Some(v) == <<v>>
OptOf(S) == {None} \cup {Some(v) : v \in S}

\* Python truthiness of an optional string: neither None nor "".
Truthy(o) == o # None /\ o[1] # ""

(***************************************************************************)
(* Text operations of the standard library, by character.                  *)
(***************************************************************************)
LowerChars == "abcdefghijklmnopqrstuvwxyz"
UpperChars == "ABCDEFGHIJKLMNOPQRSTUVWXYZ"
Whitespace == {" ", "\t"}

CharAt(s, i) == SubSeq(s, i, i)

\* the letters' counterparts in the other case, by position in the alphabet
UpperOf ==
    [c \in {CharAt(LowerChars, i) : i \in 1..Len(LowerChars)} |->
        CharAt(UpperChars, CHOOSE i \in 1..Len(LowerChars) : CharAt(LowerChars, i) = c)]

LowerOf ==
    [c \in {CharAt(UpperChars, i) : i \in 1..Len(UpperChars)} |->
        CharAt(LowerChars, CHOOSE i \in 1..Len(UpperChars) : CharAt(UpperChars, i) = c)]

UpperChar(c) == IF c \in DOMAIN UpperOf THEN UpperOf[c] ELSE c

LowerChar(c) == IF c \in DOMAIN LowerOf THEN LowerOf[c] ELSE c

RECURSIVE Upper(_)
Upper(s) == IF s = "" THEN "" ELSE UpperChar(Head(s)) \o Upper(Tail(s))

RECURSIVE Lower(_)
Lower(s) == IF s = "" THEN "" ELSE LowerChar(Head(s)) \o Lower(Tail(s))

RECURSIVE LStrip(_)
LStrip(s) == IF s # "" /\ Head(s) \in Whitespace THEN LStrip(Tail(s)) ELSE s

RECURSIVE RStrip(_)
RStrip(s) ==
    IF s # "" /\ CharAt(s, Len(s)) \in Whitespace
    THEN RStrip(SubSeq(s, 1, Len(s) - 1))
    ELSE s

Strip(s) == RStrip(LStrip(s))

EndsWith(s, suffix) ==
    /\ Len(suffix) <= Len(s)
    /\ SubSeq(s, Len(s) - Len(suffix) + 1, Len(s)) = suffix

\* needle in s
Contains(s, needle) ==
    \E i \in 1..(Len(s) + 1) :
        /\ i + Len(needle) - 1 <= Len(s)
        /\ SubSeq(s, i, i + Len(needle) - 1) = needle

(***************************************************************************)
(* normalize_name and build_payload.                                       *)
(***************************************************************************)
\* normalize_name testing the suffix without its dot
normalize_name_nodot(zone, name) ==
    IF name = zone \/ EndsWith(name, zone) THEN name ELSE name \o "." \o zone

normalize_name(zone, name) ==
    IF name = zone \/ EndsWith(name, "." \o zone) THEN name ELSE name \o "." \o zone

\* build_payload adding proxied whatever the type
build_payload_any_type(name, rtype, content, ttl, proxied) ==
    LET p0 == [type |-> rtype, name |-> name, content |-> content]
        p1 == IF ttl # None THEN p0 @@ [ttl |-> ttl[1]] ELSE p0
    IN  IF proxied # None THEN p1 @@ [proxied |-> proxied[1]] ELSE p1

build_payload(name, rtype, content, ttl, proxied) ==
    LET p0 == [type |-> rtype, name |-> name, content |-> content]
        p1 == IF ttl # None THEN p0 @@ [ttl |-> ttl[1]] ELSE p0
    IN  IF rtype \in {"A", "AAAA", "CNAME"} /\ proxied # None
        THEN p1 @@ [proxied |-> proxied[1]]
        ELSE p1

(***************************************************************************)
(* The environment: what the provider can answer and what the user can     *)
(* type.  The provider is an external service, so its answers are not      *)
(* derived from the requests; every request may also fail.                 *)
(***************************************************************************)
ZoneName == "example.com"

Z1 == [id |-> "z1", name |-> ZoneName]
Z2 == [id |-> "z2", name |-> ZoneName]
ZoneResults == {<<>>, <<Z1>>, <<Z2, Z1>>}

\* A record's ttl and proxied are optional: proxied is None when the provider
\* sends no boolean there (absent, null or another type).
Rec(i, t, n, c, ttl, prox) ==
    [id |-> i, type |-> t, name |-> n, content |-> c, ttl |-> ttl, proxied |-> prox]

R1 == Rec("r1", "A", "www.example.com", "1.2.3.4", Some(300), Some(TRUE))
R2 == Rec("r2", "A", "www.example.com", "1.2.3.5", Some(1), Some(FALSE))
R3 == Rec("r3", "TXT", "example.com", "v=spf1", Some(300), None)
R4 == Rec("r4", "TXT", "www.example.com", "hello", None, Some(FALSE))
Records == {R1, R2, R3, R4}

\* Answers to a query by type and name.
MatchLists == {<<>>, <<R1>>, <<R3>>, <<R4>>, <<R1, R2>>, <<R2, R1>>}

\* The ways http_json fails: no connection, an HTTP error status, or a body
\* whose success flag is not true.
Failures == {"URLError", "HTTP404", "HTTP500", "NotSuccess"}

\* A page of a listing: its records and the total_pages of its result_info
\* (None when the response carries none).
MaxPages == 3
PerPage == 100
PageResults == {<<>>, <<R1, R2>>, <<R3>>}
TotalPages == OptOf(0..MaxPages)

\* Lines typed at the confirmation prompt and at the record-id prompt; None is
\* end of input.
ConfirmLines == {"y", "Y", " Yes\t", "", " ", "n", "no", "yes!", "ye"}
ChoiceLines == {"", " ", "r1", " r2\t", "R1", "r9"}

(***************************************************************************)
(* The command lines.                                                      *)
(***************************************************************************)
Args(cmd, rid, name, rtype, content, ttl, proxied, yes, name_substr) ==
    [cmd |-> cmd, zone |-> ZoneName, rid |-> rid, name |-> name, rtype |-> rtype,
     content |-> content, ttl |-> ttl, proxied |-> proxied, yes |-> yes,
     name_substr |-> name_substr]

RidArgs == OptOf({"", "r1", "r3", "r9"})
NameArgs == OptOf({"", "www", "www.example.com"})
TypeArgs == OptOf({"", "a", "txt"})
ProxiedArgs == OptOf({"on", "off"})

AddArgs ==
    { Args("add", None, Some(n), Some(t), Some("203.0.113.10"), ttl, px, y, None) :
        n \in {"www", "www.example.com", "example.com"}, t \in {"a", "A", "txt"},
        ttl \in OptOf({300}), px \in ProxiedArgs, y \in BOOLEAN }

UpdateArgs ==
    { Args("update", r, n, t, c, ttl, px, y, None) :
        r \in RidArgs, n \in NameArgs, t \in TypeArgs, c \in OptOf({"5.6.7.8"}),
        ttl \in OptOf({120}), px \in ProxiedArgs, y \in BOOLEAN }

DeleteArgs ==
    { Args("delete", r, n, t, None, None, None, y, None) :
        r \in RidArgs, n \in NameArgs, t \in TypeArgs, y \in BOOLEAN }

ListArgs ==
    { Args("list", None, None, t, None, None, None, FALSE, s) :
        t \in OptOf({"a"}), s \in OptOf({"WWW"}) }

(***************************************************************************)
(* The state of one run.                                                   *)
(***************************************************************************)
VARIABLES
    args,      \* the parsed command line
    pc,        \* where the run stands
    exitCode,  \* None while running, else the process's exit status
    stderr,    \* the last message written to the error stream
    reqs,      \* the HTTP requests issued so far, in order
    prompts,   \* the console reads so far: which prompt, and the line typed
    tty,       \* what sys.stdin.isatty() answered, once asked
    zid,       \* the zone id zone_id returned
    rid,       \* the record id find_record returned
    current,   \* the record find_record returned
    matches,   \* the candidates shown at the record-id prompt
    payload,   \* the payload built by cmd_add or cmd_update
    reported,  \* what the final line on the output stream reports
    page,      \* paginate_records: the page to request next
    out,       \* paginate_records: the records accumulated
    resps      \* the response to each request of reqs, in order

vars == <<args, pc, exitCode, stderr, reqs, prompts, tty, zid, rid, current,
          matches, payload, reported, page, out, resps>>

Init ==
    /\ args \in AddArgs \cup UpdateArgs \cup DeleteArgs \cup ListArgs
    /\ pc = "main"
    /\ exitCode = None
    /\ stderr = None
    /\ reqs = <<>>
    /\ prompts = <<>>
    /\ tty = None
    /\ zid = None
    /\ rid = None
    /\ current = None
    /\ matches = <<>>
    /\ payload = None
    /\ reported = None
    /\ page = 1
    /\ out = <<>>
    /\ resps = <<>>

(***************************************************************************)
(* Values main and the commands derive from the command line.              *)
(***************************************************************************)
\* main: prox = (args.proxied.lower() == "on") when --proxied is given
prox == IF args.proxied = None THEN None ELSE Some(Lower(args.proxied[1]) = "on")

\* rtype.upper() if rtype else None
rtypeUpper == IF Truthy(args.rtype) THEN Some(Upper(args.rtype[1])) ELSE None

\* cmd_add sending the name and the type as they were typed
AddPayload_raw ==
    build_payload(args.name[1], args.rtype[1], args.content[1], args.ttl, prox)

\* cmd_add: the payload built from the command line
AddPayload ==
    build_payload(normalize_name(args.zone, args.name[1]), Upper(args.rtype[1]),
                  args.content[1], args.ttl, prox)

\* cmd_update sending only what the command line gives for ttl and proxied
UpdatePayload_overwrite(a, cur) ==
    LET px       == IF a.proxied = None THEN None ELSE Some(Lower(a.proxied[1]) = "on")
        rt       == IF Truthy(a.rtype) THEN Some(Upper(a.rtype[1])) ELSE None
        new_name == IF Truthy(a.name) THEN normalize_name(a.zone, a.name[1]) ELSE cur.name
        new_type == IF Truthy(rt) THEN rt[1] ELSE cur.type
        new_content == IF a.content # None THEN a.content[1] ELSE cur.content
    IN  build_payload(new_name, new_type, new_content, a.ttl, px)

\* cmd_update sending the name as it was typed
UpdatePayload_typed_name(a, cur) ==
    LET px       == IF a.proxied = None THEN None ELSE Some(Lower(a.proxied[1]) = "on")
        rt       == IF Truthy(a.rtype) THEN Some(Upper(a.rtype[1])) ELSE None
        new_name == IF Truthy(a.name) THEN a.name[1] ELSE cur.name
        new_type == IF Truthy(rt) THEN rt[1] ELSE cur.type
        new_content == IF a.content # None THEN a.content[1] ELSE cur.content
        new_ttl  == IF a.ttl # None THEN a.ttl ELSE cur.ttl
        prox_eff == IF px # None THEN px ELSE cur.proxied
    IN  build_payload(new_name, new_type, new_content, new_ttl, prox_eff)

\* cmd_update: the field-level merge of the command line over the current record
UpdatePayload(a, cur) ==
    LET px       == IF a.proxied = None THEN None ELSE Some(Lower(a.proxied[1]) = "on")
        rt       == IF Truthy(a.rtype) THEN Some(Upper(a.rtype[1])) ELSE None
        new_name == IF Truthy(a.name) THEN normalize_name(a.zone, a.name[1]) ELSE cur.name
        new_type == IF Truthy(rt) THEN rt[1] ELSE cur.type
        new_content == IF a.content # None THEN a.content[1] ELSE cur.content
        new_ttl  == IF a.ttl # None THEN a.ttl ELSE cur.ttl
        prox_eff == IF px # None THEN px ELSE cur.proxied
    IN  build_payload(new_name, new_type, new_content, new_ttl, prox_eff)

(***************************************************************************)
(* Requests, responses, exits.                                             *)
(***************************************************************************)
Req(method, endpoint, z, r, params, pl) ==
    [method |-> method, endpoint |-> endpoint, zid |-> z, rid |-> r,
     params |-> params, payload |-> pl]

Failed(f) == [ok |-> FALSE, failure |-> f]
Ok(result, tp) == [ok |-> TRUE, result |-> result, total_pages |-> tp]

Mutating == {"POST", "PUT", "DELETE"}

\* sys.exit(code), after msg went to the error stream
sys_exit(msg, code) ==
    /\ pc' = "exit"
    /\ exitCode' = Some(code)
    /\ stderr' = Some(msg)

die(msg, code) == sys_exit(msg, code)

\* an http_json that returns to its caller's retry loop on a failure
http_fail_retry(f) == UNCHANGED <<pc, exitCode, stderr>>

\* http_json: every failure dies with the default code of die
http_fail(f) ==
    die(IF f = "URLError" THEN "Network error" ELSE "Cloudflare API error", 1)

\* the request goes out and the response comes back
Exchange(req, resp) ==
    /\ reqs' = Append(reqs, req)
    /\ resps' = Append(resps, resp)

(***************************************************************************)
(* The decisions of find_record, confirm and paginate_records.             *)
(***************************************************************************)
\* find_record looking the record up by name and type whenever both are given
by_id_unless_named(a) == Truthy(a.rid) /\ ~(Truthy(a.name) /\ Truthy(a.rtype))

\* find_record: "if rid:"
by_id(a) == Truthy(a.rid)

\* find_record taking the first of several matches when it cannot ask
match_outcome_guess(m, isatty) ==
    IF m = <<>> THEN "none"
    ELSE IF Len(m) = 1 \/ ~isatty THEN "one"
    ELSE "prompt"

\* find_record: what the answer to the query by type and name leads to
match_outcome(m, isatty) ==
    IF m = <<>> THEN "none"
    ELSE IF Len(m) = 1 THEN "one"
    ELSE IF ~isatty THEN "ambiguous"
    ELSE "prompt"

\* find_record matching the line as typed
read_choice_raw(line) == line

\* find_record: the typed line as it is matched
read_choice(line) == Strip(line)

\* find_record: next((m for m in matches if m.get("id") == choice), None)
select(ms, choice) ==
    LET hits == {i \in 1..Len(ms) : ms[i].id = choice}
    IN  IF hits = {} THEN None ELSE Some(ms[CHOOSE i \in hits : \A j \in hits : i <= j])

\* confirm without its first line: the prompt comes whatever the flag says
confirm_asks_always(yes) == TRUE

\* confirm: "if yes: return"
confirm_asks(yes) == ~yes

\* confirm taking every answer that starts like a yes
affirmative_prefix(line) == Lower(Strip(line)) # "" /\ Head(Lower(Strip(line))) = "y"

\* confirm: the answers that let the command go on
affirmative(line) == Lower(Strip(line)) \in {"y", "yes"}

\* paginate_records breaking one page late
last_page_late(p, tp) == p > (IF tp = None THEN 1 ELSE tp[1])

\* paginate_records: "if page >= int(info.get("total_pages", 1)): break"
last_page(p, tp) == p >= (IF tp = None THEN 1 ELSE tp[1])

(***************************************************************************)
(* The steps of a run.                                                     *)
(***************************************************************************)
\* main: read_token, then the dispatch; each command modelled starts in zone_id
Main ==
    /\ pc = "main"
    /\ \/ die("No token", 2)
       \/ /\ pc' = "zone_id"
          /\ UNCHANGED <<exitCode, stderr>>
    /\ UNCHANGED <<args, reqs, prompts, tty, zid, rid, current, matches, payload,
                   reported, page, out, resps>>

\* a zone_id that takes the last zone of the result
zone_pick_last(res) == res[Len(res)].id

\* zone_id: res[0]["id"], the id of the first zone of the result
zone_pick(res) == res[1].id

\* zone_id, and what the command does with the id before its next interaction
ZoneId ==
    /\ pc = "zone_id"
    /\ LET req == Req("GET", "zones", None, None, Some([name |-> args.zone]), None)
       IN  \/ \E f \in Failures :
                /\ Exchange(req, Failed(f))
                /\ http_fail(f)
                /\ UNCHANGED <<zid, payload>>
           \/ \E res \in ZoneResults :
                /\ Exchange(req, Ok(res, None))
                /\ IF res = <<>>
                   THEN /\ die("Zone not found or unauthorized", 3)
                        /\ UNCHANGED <<zid, payload>>
                   ELSE /\ zid' = Some(zone_pick(res))
                        /\ pc' = CASE args.cmd = "add" -> "confirm"
                                   [] args.cmd = "list" -> "paginate"
                                   [] OTHER -> "find_record"
                        /\ payload' = IF args.cmd = "add" THEN Some(AddPayload)
                                      ELSE payload
                        /\ UNCHANGED <<exitCode, stderr>>
    /\ UNCHANGED <<args, prompts, tty, rid, current, matches, reported, page, out>>

\* find_record returned (id, rec): cmd_update builds its payload, cmd_delete none
Resolved(id, rec) ==
    /\ rid' = Some(id)
    /\ current' = Some(rec)
    /\ payload' = IF args.cmd = "update" THEN Some(UpdatePayload(args, rec)) ELSE payload
    /\ pc' = "confirm"
    /\ UNCHANGED <<exitCode, stderr>>

\* a find_record that only rejects a name or type that was not given at all
lacks_name_or_type_none(name, rtype) == name = None \/ rtype = None

\* find_record: not name or not rtype
lacks_name_or_type(name, rtype) == ~Truthy(name) \/ ~Truthy(rtype)

\* find_record up to its console read
FindRecord ==
    /\ pc = "find_record"
    /\ IF by_id(args)
       THEN LET req == Req("GET", "dns_record", zid, args.rid, None, None)
            IN  /\ \/ \E f \in Failures :
                        /\ Exchange(req, Failed(f))
                        /\ http_fail(f)
                        /\ UNCHANGED <<rid, current, payload>>
                   \/ \E r \in Records :
                        /\ r.id = args.rid[1]
                        /\ Exchange(req, Ok(Some(r), None))
                        /\ Resolved(args.rid[1], r)
                /\ UNCHANGED <<tty, matches>>
       ELSE IF lacks_name_or_type(args.name, rtypeUpper)
       THEN /\ die("Provide --id OR (--name and --type)", 2)
            /\ UNCHANGED <<reqs, resps, tty, rid, current, matches, payload>>
       ELSE LET fqdn == IF args.zone # "" THEN normalize_name(args.zone, args.name[1])
                        ELSE args.name[1]
                req  == Req("GET", "dns_records", zid, None,
                            Some([type |-> rtypeUpper[1], name |-> fqdn]), None)
            IN  \/ \E f \in Failures :
                     /\ Exchange(req, Failed(f))
                     /\ http_fail(f)
                     /\ UNCHANGED <<tty, rid, current, matches, payload>>
                \/ \E m \in MatchLists, isatty \in BOOLEAN :
                     LET o == match_outcome(m, isatty)
                     IN  /\ Exchange(req, Ok(m, None))
                         /\ tty' = IF Len(m) > 1 THEN Some(isatty) ELSE tty
                         /\ CASE o = "none" ->
                                   /\ die("No records match", 3)
                                   /\ UNCHANGED <<rid, current, matches, payload>>
                              [] o = "one" ->
                                   /\ Resolved(m[1].id, m[1])
                                   /\ UNCHANGED matches
                              [] o = "ambiguous" ->
                                   /\ die("Multiple records match", 3)
                                   /\ UNCHANGED <<rid, current, matches, payload>>
                              [] OTHER ->
                                   /\ matches' = m
                                   /\ pc' = "choose"
                                   /\ UNCHANGED <<exitCode, stderr, rid, current, payload>>
    /\ UNCHANGED <<args, prompts, zid, reported, page, out>>

\* find_record from its console read on; end of input raises EOFError, which
\* nothing catches
Choose ==
    /\ pc = "choose"
    /\ \/ /\ prompts' = Append(prompts, [kind |-> "record_id", line |-> None])
          /\ sys_exit("EOFError", 1)
          /\ UNCHANGED <<rid, current, payload>>
       \/ \E line \in ChoiceLines :
            LET choice == read_choice(line)
                sel    == select(matches, choice)
            IN  /\ prompts' = Append(prompts, [kind |-> "record_id", line |-> Some(line)])
                /\ IF choice = ""
                   THEN /\ sys_exit("No record selected.", 0)
                        /\ UNCHANGED <<rid, current, payload>>
                   ELSE IF sel = None
                   THEN /\ die("Invalid record ID.", 2)
                        /\ UNCHANGED <<rid, current, payload>>
                   ELSE Resolved(choice, sel[1])
    /\ UNCHANGED <<args, reqs, resps, tty, zid, matches, reported, page, out>>

\* a PUT and a DELETE addressed to the --id of the command line
mutating_request_arg_id ==
    CASE args.cmd = "add" -> Req("POST", "dns_records", zid, None, None, payload)
      [] args.cmd = "update" -> Req("PUT", "dns_record", zid, args.rid, None, payload)
      [] OTHER -> Req("DELETE", "dns_record", zid, args.rid, None, None)

\* the mutating request of cmd_add, cmd_update and cmd_delete
mutating_request ==
    CASE args.cmd = "add" -> Req("POST", "dns_records", zid, None, None, payload)
      [] args.cmd = "update" -> Req("PUT", "dns_record", zid, rid, None, payload)
      [] OTHER -> Req("DELETE", "dns_record", zid, rid, None, None)

\* the mutating request of the command and the report of its result
DoMutate ==
    LET req == mutating_request
    IN  \/ \E f \in Failures :
             /\ Exchange(req, Failed(f))
             /\ http_fail(f)
             /\ UNCHANGED reported
        \/ /\ pc' = "exit"
           /\ exitCode' = Some(0)
           /\ UNCHANGED stderr
           /\ IF args.cmd = "delete"
              THEN /\ Exchange(req, Ok(None, None))
                   /\ reported' = Some([verb |-> "deleted", name |-> current[1].name,
                                        type |-> current[1].type,
                                        content |-> current[1].content])
              ELSE \E r \in Records :
                     /\ Exchange(req, Ok(Some(r), None))
                     /\ reported' =
                          IF args.cmd = "add"
                          THEN Some([verb |-> "created", name |-> r.name,
                                     type |-> r.type, content |-> r.content,
                                     ttl |-> r.ttl, proxied |-> r.proxied])
                          ELSE Some([verb |-> "updated", name |-> r.name,
                                     type |-> r.type, old |-> current[1].content,
                                     content |-> r.content])

\* confirm; with --yes it returns at once and the command goes on to its request
Confirm ==
    /\ pc = "confirm"
    /\ IF ~confirm_asks(args.yes)
       THEN /\ DoMutate
            /\ UNCHANGED prompts
       ELSE /\ \/ /\ prompts' = Append(prompts, [kind |-> "confirm", line |-> None])
                  /\ sys_exit("EOFError", 1)
               \/ \E line \in ConfirmLines :
                    /\ prompts' = Append(prompts, [kind |-> "confirm", line |-> Some(line)])
                    /\ IF ~affirmative(line)
                       THEN sys_exit("Aborted.", 0)
                       ELSE /\ pc' = "mutate"
                            /\ UNCHANGED <<exitCode, stderr>>
            /\ UNCHANGED <<reqs, resps, reported>>
    /\ UNCHANGED <<args, tty, zid, rid, current, matches, payload, page, out>>

\* the request after an affirmative answer
Mutate ==
    /\ pc = "mutate"
    /\ DoMutate
    /\ UNCHANGED <<args, prompts, tty, zid, rid, current, matches, payload, page, out>>

\* cmd_list after paginate_records: the name filter, then the rendering
Filtered(recs) ==
    IF Truthy(args.name_substr)
    THEN SelectSeq(recs, LAMBDA r : Contains(Lower(r.name), Lower(args.name_substr[1])))
    ELSE recs

\* a loop that asks for the same page again
next_page_same(p) == p

\* paginate_records: page += 1
next_page(p) == p + 1

\* one turn of the loop of paginate_records; cmd_list goes on when it breaks
Paginate ==
    /\ pc = "paginate"
    /\ LET req == Req("GET", "dns_records", zid, None,
                      Some(IF Truthy(rtypeUpper)
                           THEN [page |-> page, per_page |-> PerPage,
                                 type |-> rtypeUpper[1]]
                           ELSE [page |-> page, per_page |-> PerPage]), None)
       IN  \/ \E f \in Failures :
                /\ Exchange(req, Failed(f))
                /\ http_fail(f)
                /\ UNCHANGED <<page, out, reported>>
           \/ \E result \in PageResults, tp \in TotalPages :
                /\ Exchange(req, Ok(result, tp))
                /\ out' = out \o result
                /\ IF last_page(page, tp)
                   THEN /\ reported' = Some([verb |-> "listed",
                                             records |-> Filtered(out')])
                        /\ pc' = "exit"
                        /\ exitCode' = Some(0)
                        /\ UNCHANGED <<page, stderr>>
                   ELSE /\ page' = next_page(page)
                        /\ UNCHANGED <<pc, exitCode, stderr, reported>>
    /\ UNCHANGED <<args, prompts, tty, zid, rid, current, matches, payload>>

Next == Main \/ ZoneId \/ FindRecord \/ Choose \/ Confirm \/ Mutate \/ Paginate

Spec == Init /\ [][Next]_vars

\* the process is sequential and every exchange and console read returns, so
\* a run that can take a step takes one
SpecFair == Spec /\ WF_vars(Next)

(***************************************************************************)
(* normalize_name on its own: every zone and name over a small alphabet,   *)
(* normalized once and then once more.                                     *)
(***************************************************************************)
MaxZoneLen == 2
MaxNameLen == 3
Alphabet == {"a", "b", "."}

RECURSIVE StrsUpTo(_)
StrsUpTo(n) ==
    IF n = 0 THEN {""}
    ELSE LET S == StrsUpTo(n - 1) IN S \cup {c \o t : c \in Alphabet, t \in S}

InitNormalize ==
    /\ args \in {[cmd |-> "normalize", zone |-> z, name |-> n] :
                    z \in StrsUpTo(MaxZoneLen), n \in StrsUpTo(MaxNameLen)}
    /\ pc = "normalize"
    /\ exitCode = None
    /\ stderr = None
    /\ reqs = <<>>
    /\ prompts = <<>>
    /\ tty = None
    /\ zid = None
    /\ rid = None
    /\ current = None
    /\ matches = <<>>
    /\ payload = None
    /\ reported = None
    /\ page = 1
    /\ out = <<>>
    /\ resps = <<>>

Normalize ==
    /\ pc = "normalize"
    /\ out' = <<normalize_name(args.zone, args.name)>>
    /\ pc' = "renormalize"
    /\ UNCHANGED <<args, exitCode, stderr, reqs, prompts, tty, zid, rid, current,
                   matches, payload, reported, page, resps>>

Renormalize ==
    /\ pc = "renormalize"
    /\ out' = Append(out, normalize_name(args.zone, out[1]))
    /\ pc' = "done"
    /\ UNCHANGED <<args, exitCode, stderr, reqs, prompts, tty, zid, rid, current,
                   matches, payload, reported, page, resps>>

NextNormalize == Normalize \/ Renormalize

SpecNormalize == InitNormalize /\ [][NextNormalize]_vars

(***************************************************************************)
(* Properties.                                                             *)
(***************************************************************************)
IsMutatingCmd == args.cmd \in {"add", "update", "delete"}

MutatingIssued == \E i \in 1..Len(reqs) : reqs[i].method \in Mutating

\* zone_id returned an id and, in update and delete, find_record a record
LookupsSucceeded ==
    /\ zid # None
    /\ args.cmd \in {"update", "delete"} => current # None

\* the lines of ConfirmLines that are "y" or "yes" once trimmed and lowercased
AffirmativeLines == {"y", "Y", " Yes\t"}

\* C1: in add, update and delete without the skip flag, an answer to the
\* confirmation prompt that is not an affirmative token (blank included) ends
\* the run with exit code 0 and without any POST, PUT or DELETE.
C1_NonAffirmativeAborts ==
    \A i \in 1..Len(prompts) :
        ( /\ IsMutatingCmd
          /\ ~args.yes
          /\ prompts[i].kind = "confirm"
          /\ prompts[i].line # None
          /\ prompts[i].line[1] \notin AffirmativeLines )
        => /\ ~MutatingIssued
           /\ pc = "exit"
           /\ exitCode = Some(0)

C1_Witness ==
    /\ args.cmd = "update"
    /\ ~args.yes
    /\ current # None
    /\ prompts # <<>>
    /\ prompts[Len(prompts)] = [kind |-> "confirm", line |-> Some("")]
    /\ pc = "exit"

\* C2 as stated: with the skip flag, add, update and delete issue no prompt at
\* any point of the run, and a run whose lookups succeed issues its mutating
\* request.
C2_NoPromptAtAll ==
    (IsMutatingCmd /\ args.yes)
    => /\ prompts = <<>>
       /\ (pc = "exit" /\ LookupsSucceeded) => MutatingIssued

\* C2 as amended: with the skip flag, add, update and delete issue no
\* confirmation prompt (the record-id prompt of find_record is still issued
\* when several records match in an interactive session), and once the lookups
\* have succeeded the very next step issues the mutating request.
C2_NoConfirmPrompt ==
    /\ [](  (IsMutatingCmd /\ args.yes)
            => /\ \A i \in 1..Len(prompts) : prompts[i].kind = "record_id"
               /\ prompts # <<>> => (args.cmd # "add" /\ tty = Some(TRUE))
               /\ (pc = "exit" /\ LookupsSucceeded) => MutatingIssued )
    /\ [][ (IsMutatingCmd /\ args.yes /\ pc = "confirm")
           => /\ prompts' = prompts
              /\ Len(reqs') = Len(reqs) + 1
              /\ reqs'[Len(reqs')].method \in Mutating ]_vars

C2_Witness ==
    /\ args.cmd = "delete"
    /\ args.yes
    /\ prompts = <<[kind |-> "record_id", line |-> Some("r1")]>>
    /\ pc = "exit"
    /\ MutatingIssued

\* the command line of an update or delete that names the record both ways
BothGiven ==
    /\ args.cmd \in {"update", "delete"}
    /\ Truthy(args.rid) /\ Truthy(args.name) /\ Truthy(args.rtype)

\* the same command line without --name and --type
WithoutNameType == [args EXCEPT !.name = None, !.rtype = None]

\* what normalization and uppercasing make of the names and types of the
\* command lines
ExpectedFqdn(n) ==
    CASE n = "www" -> "www.example.com"
      [] n = "www.example.com" -> "www.example.com"
      [] n = "example.com" -> "example.com"
      [] n = "" -> ".example.com"

ExpectedType(t) ==
    CASE t = "a" -> "A"
      [] t = "A" -> "A"
      [] t = "txt" -> "TXT"
      [] t = "" -> ""

\* the requests that follow the zone lookup of a run by id
ById_Requests ==
    /\ \A i \in 1..Len(reqs) : reqs[i].endpoint # "dns_records"
    /\ Len(reqs) >= 2 => reqs[2] = Req("GET", "dns_record", zid, args.rid, None, None)
    /\ \A i \in 1..Len(reqs) : reqs[i].method \in Mutating => reqs[i].rid = args.rid
    /\ current # None =>
         /\ rid = args.rid
         /\ current[1].id = args.rid[1]
         /\ resps[2] = Ok(current, None)

\* C3 as stated: with both an id and a (name, type) pair, update and delete
\* fetch the record by id, issue no query by name and type, and the target and
\* the outgoing payload are what they are without --name and --type.
C3_NameTypeIgnored ==
    BothGiven =>
        /\ ById_Requests
        /\ (args.cmd = "update" /\ current # None)
             => payload = Some(UpdatePayload(WithoutNameType, current[1]))

\* C3 as amended: with both an id and a (name, type) pair, update and delete
\* resolve the record by id alone: no query by name and type is issued and the
\* target is the record of that id, as without --name and --type.  In update
\* the supplied name (normalized) and type (uppercased) are the name and type
\* of the outgoing payload; its content and ttl are as without them.
C3_IdPathExclusive ==
    BothGiven =>
        /\ ById_Requests
        /\ (args.cmd = "update" /\ current # None) =>
             LET p  == payload[1]
                 p0 == UpdatePayload(WithoutNameType, current[1])
             IN  /\ payload # None
                 /\ p.name = ExpectedFqdn(args.name[1])
                 /\ p.type = ExpectedType(args.rtype[1])
                 /\ p.content = p0.content
                 /\ ("ttl" \in DOMAIN p) = ("ttl" \in DOMAIN p0)
                 /\ "ttl" \in DOMAIN p => p.ttl = p0.ttl
                 /\ \A i \in 1..Len(reqs) : reqs[i].method = "PUT" => reqs[i].payload = payload
        /\ args.cmd = "delete" => payload = None

C3_Witness ==
    /\ args.cmd = "update"
    /\ args.rid = Some("r3") /\ args.name = Some("www") /\ args.rtype = Some("a")
    /\ pc = "exit"
    /\ exitCode = Some(0)
    /\ MutatingIssued

\* an update or delete without id whose query by type and name was answered
NameQueryAnswered ==
    /\ args.cmd \in {"update", "delete"}
    /\ ~Truthy(args.rid)
    /\ Len(reqs) >= 2
    /\ reqs[2].endpoint = "dns_records"
    /\ resps[2].ok

\* C4: resolving by (name, type) without id: no candidate ends the run with
\* exit code 3; exactly one candidate is returned without a record-id prompt;
\* several candidates in a non-interactive session end the run with exit code
\* 3 without a prompt.  No mutating request in the first and the last case.
C4_ResolveByName ==
    NameQueryAnswered =>
        LET m == resps[2].result
        IN  /\ Len(m) = 0 =>
                 /\ pc = "exit" /\ exitCode = Some(3)
                 /\ prompts = <<>> /\ ~MutatingIssued /\ current = None
            /\ Len(m) = 1 =>
                 /\ rid = Some(m[1].id) /\ current = Some(m[1])
                 /\ tty = None
                 /\ \A i \in 1..Len(prompts) : prompts[i].kind # "record_id"
                 /\ \A i \in 1..Len(reqs) : reqs[i].method \in Mutating
                                              => reqs[i].rid = Some(m[1].id)
            /\ (Len(m) > 1 /\ tty = Some(FALSE)) =>
                 /\ pc = "exit" /\ exitCode = Some(3)
                 /\ prompts = <<>> /\ ~MutatingIssued /\ current = None

C4_Witness ==
    /\ NameQueryAnswered
    /\ Len(resps[2].result) = 2
    /\ tty = Some(FALSE)
    /\ exitCode = Some(3)

\* a line was typed at the record-id prompt (the first prompt of such a run)
ChoiceTyped ==
    /\ prompts # <<>>
    /\ prompts[1].kind = "record_id"
    /\ prompts[1].line # None

CandidateIds == {matches[i].id : i \in 1..Len(matches)}

\* the lines of ChoiceLines without their surrounding whitespace
TrimmedChoice(l) ==
    CASE l = "" -> ""
      [] l = " " -> ""
      [] l = "r1" -> "r1"
      [] l = " r2\t" -> "r2"
      [] l = "R1" -> "R1"
      [] l = "r9" -> "r9"

\* the run goes on with the candidate of id t, and only with it
Selected(t) ==
    /\ rid = Some(t)
    /\ current # None /\ current[1].id = t
    /\ \E i \in 1..Len(matches) : matches[i] = current[1]
    /\ \A i \in 1..Len(reqs) : reqs[i].method \in Mutating => reqs[i].rid = Some(t)

\* C5 as stated: at the record-id prompt blank input ends the run with exit
\* code 0, a typed value equal to no candidate's id ends it with exit code 2,
\* both without a mutating request, and a typed value equal to a candidate's
\* id selects that candidate, which the later mutating call targets.
C5_TypedValueExact ==
    ChoiceTyped =>
        LET l == prompts[1].line[1]
        IN  /\ l \in {"", " "} =>
                 pc = "exit" /\ exitCode = Some(0) /\ ~MutatingIssued
            /\ (l \notin {"", " "} /\ l \notin CandidateIds) =>
                 pc = "exit" /\ exitCode = Some(2) /\ ~MutatingIssued
            /\ l \in CandidateIds => Selected(l)

\* C5 as amended: the typed value is taken after trimming surrounding
\* whitespace.  Blank after trimming: exit code 0; not blank and equal to no
\* candidate's id: exit code 2; both without a mutating request.  Equal to a
\* candidate's id: that candidate is selected and the later mutating call
\* targets that id.
C5_TrimmedChoice ==
    ChoiceTyped =>
        LET t == TrimmedChoice(prompts[1].line[1])
        IN  /\ t = "" =>
                 pc = "exit" /\ exitCode = Some(0) /\ ~MutatingIssued
            /\ (t # "" /\ t \notin CandidateIds) =>
                 pc = "exit" /\ exitCode = Some(2) /\ ~MutatingIssued
            /\ t \in CandidateIds => Selected(t)

C5_Witness ==
    /\ ChoiceTyped
    /\ prompts[1].line = Some(" r2\t")
    /\ args.cmd = "delete"
    /\ pc = "exit"
    /\ \E i \in 1..Len(reqs) : reqs[i].method = "DELETE" /\ reqs[i].rid = Some("r2")

\* C6: an update or delete by id whose fetch the provider answers with "no
\* such record" (HTTP 404) ends with the not-found exit code 3 and without a
\* mutating request.
C6_NotFoundById ==
    ( /\ args.cmd \in {"update", "delete"}
      /\ Truthy(args.rid)
      /\ Len(resps) >= 2
      /\ reqs[2] = Req("GET", "dns_record", zid, args.rid, None, None)
      /\ resps[2] = Failed("HTTP404") )
    => /\ pc = "exit"
       /\ exitCode = Some(3)
       /\ ~MutatingIssued

\* a list run all of whose page responses succeeded and reported k pages
AllReport(k) ==
    /\ args.cmd = "list"
    /\ Len(resps) >= 2
    /\ \A i \in 2..Len(resps) : resps[i].ok /\ resps[i].total_pages = Some(k)

RECURSIVE ConcatResults(_)
ConcatResults(rs) ==
    IF rs = <<>> THEN <<>> ELSE Head(rs).result \o ConcatResults(Tail(rs))

\* the page requests so far are pages 1, 2, ... in this order, at most n of
\* them and exactly n once the listing is done, and the records accumulated
\* are the pages' results in page order
PagesInOrder(n) ==
    /\ \A i \in 2..Len(reqs) :
         /\ reqs[i].method = "GET" /\ reqs[i].endpoint = "dns_records"
         /\ reqs[i].params[1].page = i - 1
    /\ Len(reqs) - 1 <= n
    /\ out = ConcatResults(SubSeq(resps, 2, Len(resps)))
    /\ pc = "exit" => Len(reqs) - 1 = n

\* C7 as stated: against a listing that reports total_pages = k on every page,
\* paginate_records requests pages 1..k in order, each once, k requests in
\* all, and returns the concatenation of the pages' results in page order.
C7_ExactlyKPages ==
    \A k \in 0..MaxPages : AllReport(k) => PagesInOrder(k)

\* C7 as amended: the same for k >= 1; against a listing that reports
\* total_pages = 0 exactly one request (page 1) is issued and its result is
\* returned.
C7_KPagesFromOne ==
    \A k \in 0..MaxPages : AllReport(k) => PagesInOrder(IF k = 0 THEN 1 ELSE k)

C7_Witness ==
    /\ AllReport(MaxPages)
    /\ pc = "exit"
    /\ Len(reqs) = MaxPages + 1
    /\ resps[2].result = <<R1, R2>>
    /\ resps[3].result = <<R3>>
    /\ Len(out) > 3

\* the payload p carries field f with the value of o, or lacks it when o is None
FieldIs(p, f, o) ==
    IF o = None THEN f \notin DOMAIN p ELSE f \in DOMAIN p /\ p[f] = o[1]

\* --proxied on|off as the boolean main makes of it
SuppliedProxied == IF args.proxied = None THEN None ELSE Some(args.proxied[1] = "on")

\* an update run that has resolved its record and built its payload
UpdateBuilt == args.cmd = "update" /\ current # None

\* the example of the update merge
C8_Example ==
    ( /\ UpdateBuilt
      /\ current = Some(Rec("r1", "A", "www.example.com", "1.2.3.4", Some(300), Some(TRUE)))
      /\ args.content = Some("5.6.7.8")
      /\ args.name = None /\ args.rtype = None /\ args.ttl = None /\ args.proxied = None )
    => payload = Some([type |-> "A", name |-> "www.example.com", content |-> "5.6.7.8",
                       ttl |-> 300, proxied |-> TRUE])

\* C8 as stated: every field of the update payload (name, type, content, ttl,
\* proxied) is the user-supplied value when one was supplied (is not None) and
\* the current record's value otherwise.
C8_FieldwiseMerge ==
    UpdateBuilt =>
        LET p   == payload[1]
            cur == current[1]
        IN  /\ payload # None
            /\ p.name = IF args.name # None THEN ExpectedFqdn(args.name[1]) ELSE cur.name
            /\ p.type = IF args.rtype # None THEN ExpectedType(args.rtype[1]) ELSE cur.type
            /\ p.content = IF args.content # None THEN args.content[1] ELSE cur.content
            /\ FieldIs(p, "ttl", IF args.ttl # None THEN args.ttl ELSE cur.ttl)
            /\ FieldIs(p, "proxied",
                       IF args.proxied # None THEN SuppliedProxied ELSE cur.proxied)
            /\ C8_Example

\* C8 as amended: name is the supplied name, normalized, when one was supplied
\* and is not empty, else the current name; type is the supplied type,
\* uppercased, when one was supplied and is not empty, else the current type;
\* content and ttl are the
\* supplied value when supplied (is not None), else the current one; proxied
\* is carried only when the payload's type is A, AAAA or CNAME, and is then the
\* supplied flag when supplied, else the current record's boolean.  A value
\* that neither side has leaves the field out.
C8_MergeWithinTypeRule ==
    UpdateBuilt =>
        LET p   == payload[1]
            cur == current[1]
        IN  /\ payload # None
            /\ DOMAIN p \subseteq {"type", "name", "content", "ttl", "proxied"}
            /\ p.name = IF Truthy(args.name) THEN ExpectedFqdn(args.name[1]) ELSE cur.name
            /\ p.type = IF Truthy(args.rtype) THEN ExpectedType(args.rtype[1]) ELSE cur.type
            /\ p.content = IF args.content # None THEN args.content[1] ELSE cur.content
            /\ FieldIs(p, "ttl", IF args.ttl # None THEN args.ttl ELSE cur.ttl)
            /\ IF p.type \in {"A", "AAAA", "CNAME"}
               THEN FieldIs(p, "proxied",
                            IF args.proxied # None THEN SuppliedProxied ELSE cur.proxied)
               ELSE "proxied" \notin DOMAIN p
            /\ \A i \in 1..Len(reqs) : reqs[i].method = "PUT" => reqs[i].payload = payload
            /\ C8_Example

C8_Witness ==
    /\ UpdateBuilt
    /\ current = Some(R1)
    /\ args.content = Some("5.6.7.8")
    /\ args.name = None /\ args.rtype = None /\ args.ttl = None /\ args.proxied = None
    /\ \E i \in 1..Len(reqs) :
         /\ reqs[i].method = "PUT"
         /\ reqs[i].payload = Some([type |-> "A", name |-> "www.example.com",
                                    content |-> "5.6.7.8", ttl |-> 300, proxied |-> TRUE])

\* C9: normalize_name(z, n) is n when n is z or ends in "." + z, and
\* n + "." + z otherwise; normalizing the result again changes nothing.
C9_NormalizeName ==
    pc \in {"renormalize", "done"} =>
        LET z     == args.zone
            n     == args.name
            keeps == n = z \/ \E q \in StrsUpTo(MaxNameLen) : n = q \o "." \o z
        IN  /\ keeps => out[1] = n
            /\ ~keeps => out[1] = n \o "." \o z
            /\ pc = "done" => out[2] = out[1]

C9_Witness ==
    /\ pc = "done"
    /\ args.zone = "b"
    /\ args.name = "ab"
    /\ out = <<"ab.b", "ab.b">>

\* an add run with the skip flag whose zone lookup succeeded
AddYesRun == args.cmd = "add" /\ args.yes /\ zid # None

\* the requests of such a run: the zone lookup, then the create call, no other
AddRequests ==
    /\ Len(reqs) <= 2
    /\ reqs[1] = Req("GET", "zones", None, None, Some([name |-> "example.com"]), None)
    /\ pc = "exit" =>
         /\ Len(reqs) = 2
         /\ reqs[2] = Req("POST", "dns_records", zid, None, None, payload)
         /\ payload # None

\* the report of such a run is the provider's answer to the create call
AddReport ==
    pc = "exit" =>
        IF resps[2].ok
        THEN LET r == resps[2].result[1]
             IN  /\ exitCode = Some(0)
                 /\ reported = Some([verb |-> "created", name |-> r.name, type |-> r.type,
                                     content |-> r.content, ttl |-> r.ttl,
                                     proxied |-> r.proxied])
        ELSE exitCode = Some(1) /\ reported = None

C10_ExampleArgs ==
    /\ args.name = Some("www") /\ args.rtype = Some("A")
    /\ args.content = Some("203.0.113.10")
    /\ args.ttl = Some(300) /\ args.proxied = Some("on")

C10_ExamplePayload ==
    [type |-> "A", name |-> "www.example.com", content |-> "203.0.113.10",
     ttl |-> 300, proxied |-> TRUE]

\* C10 as stated: an add run with the skip flag whose zone lookup succeeds
\* issues one zone lookup, then one POST and nothing else; the payload carries
\* the uppercased type, the normalized name, the content, and ttl and proxied
\* when supplied; the report is the provider's response.
C10_AddEndToEnd ==
    AddYesRun =>
        /\ AddRequests
        /\ AddReport
        /\ payload # None
        /\ LET p == payload[1]
           IN  /\ p.type = ExpectedType(args.rtype[1])
               /\ p.name = ExpectedFqdn(args.name[1])
               /\ p.content = args.content[1]
               /\ FieldIs(p, "ttl", args.ttl)
               /\ FieldIs(p, "proxied", SuppliedProxied)
               /\ C10_ExampleArgs => p = C10_ExamplePayload

\* C10 as amended: the same, with proxied carried when it is supplied and the
\* type is A, AAAA or CNAME, and left out for every other type.
C10_AddProxiedByType ==
    AddYesRun =>
        /\ AddRequests
        /\ AddReport
        /\ payload # None
        /\ LET p == payload[1]
           IN  /\ DOMAIN p \subseteq {"type", "name", "content", "ttl", "proxied"}
               /\ p.type = ExpectedType(args.rtype[1])
               /\ p.name = ExpectedFqdn(args.name[1])
               /\ p.content = args.content[1]
               /\ FieldIs(p, "ttl", args.ttl)
               /\ IF p.type \in {"A", "AAAA", "CNAME"}
                  THEN FieldIs(p, "proxied", SuppliedProxied)
                  ELSE "proxied" \notin DOMAIN p
               /\ C10_ExampleArgs => p = C10_ExamplePayload

C10_Witness ==
    /\ AddYesRun
    /\ C10_ExampleArgs
    /\ pc = "exit"
    /\ reqs[2].payload = Some(C10_ExamplePayload)
    /\ resps[2] = Ok(Some(R2), None)
    /\ reported # None /\ reported[1].content = "1.2.3.5"

(***************************************************************************)
(* C11: zone resolution.  When the zones query is answered with an empty   *)
(* result the run ends with exit code 3 and that query is its only         *)
(* request; when it is answered with one or more zones, the id of the      *)
(* first one is the zone id of the run and of every later request.         *)
(***************************************************************************)
ZoneAnswered == Len(resps) >= 1 /\ resps[1].ok

FirstZoneId == IF resps[1].result[1] = Z1 THEN "z1" ELSE "z2"

C11_ZoneResolution ==
    /\ Len(reqs) >= 1 =>
         reqs[1] = [method |-> "GET", endpoint |-> "zones", zid |-> None, rid |-> None,
                    params |-> Some([name |-> ZoneName]), payload |-> None]
    /\ \A i \in 2..Len(reqs) : reqs[i].endpoint # "zones"
    /\ ZoneAnswered /\ resps[1].result = <<>> =>
         /\ pc = "exit"
         /\ exitCode = Some(3)
         /\ Len(reqs) = 1
         /\ zid = None
    /\ ZoneAnswered /\ resps[1].result # <<>> =>
         /\ zid = Some(FirstZoneId)
         /\ \A i \in 2..Len(reqs) : reqs[i].zid = Some(FirstZoneId)

C11_Witness ==
    /\ ZoneAnswered
    /\ resps[1].result = <<Z2, Z1>>
    /\ Len(reqs) >= 3
    /\ reqs[3].method \in Mutating
    /\ reqs[3].zid = Some("z2")

(***************************************************************************)
(* C12: update or delete with no record id and without a name or without   *)
(* a type.                                                                 *)
(***************************************************************************)
\* the command lines of the claim: no --id (or an empty one), and --name or
\* --type missing (or empty)
NoIdAndLacking ==
    /\ args.cmd \in {"update", "delete"}
    /\ args.rid \in {None, Some("")}
    /\ args.name \in {None, Some("")} \/ args.rtype \in {None, Some("")}

NoRecordRequest == \A i \in 1..Len(reqs) : reqs[i].endpoint = "zones"

\* C12 as stated: every such run that ends, ends with exit code 2, having
\* issued no record query and no mutating request.
C12_AlwaysExit2 ==
    NoIdAndLacking /\ pc = "exit" => exitCode = Some(2) /\ NoRecordRequest

\* C12 as the code has it: such a run issues no request but the zone lookup
\* and no prompt, and once the zone lookup has returned a zone it ends with
\* exit code 2 on the message of find_record; the token and the zone lookup
\* are checked first and end the run with their own codes.
C12_Exit2AfterZoneLookup ==
    NoIdAndLacking =>
        /\ NoRecordRequest
        /\ Len(reqs) <= 1
        /\ prompts = <<>>
        /\ pc \in {"main", "zone_id", "find_record", "exit"}
        /\ rid = None /\ current = None /\ payload = None
        /\ zid # None /\ pc = "exit" =>
             /\ exitCode = Some(2)
             /\ stderr = Some("Provide --id OR (--name and --type)")
        /\ pc = "exit" /\ exitCode = Some(2) /\ Len(reqs) = 1 => zid # None

C12_Witness ==
    /\ args.cmd = "update"
    /\ args.rid = None /\ args.name = Some("www") /\ args.rtype = None
    /\ zid = Some("z1")
    /\ Len(reqs) = 1
    /\ pc = "exit" /\ exitCode = Some(2)

(***************************************************************************)
(* C13: no error is retried.  A request that ends in a transport failure,  *)
(* an HTTP error status or a response without success = true is the last   *)
(* request of its run, the run has ended with exit code 1, and no request  *)
(* of a run is issued twice.                                               *)
(***************************************************************************)
FailedAt(i) == resps[i] \in {[ok |-> FALSE, failure |-> "URLError"],
                             [ok |-> FALSE, failure |-> "HTTP404"],
                             [ok |-> FALSE, failure |-> "HTTP500"],
                             [ok |-> FALSE, failure |-> "NotSuccess"]}

C13_FailureIsTerminal ==
    /\ Len(resps) = Len(reqs)
    /\ \A i \in 1..Len(resps) :
         FailedAt(i) =>
            /\ i = Len(reqs)
            /\ pc = "exit"
            /\ exitCode = Some(1)
    /\ \A i \in 1..Len(resps) : ~FailedAt(i) => resps[i].ok
    /\ \A i, j \in 1..Len(reqs) : i # j => reqs[i] # reqs[j]

\* a listing whose zone lookup and first page succeeded and whose second page
\* request fails
C13_Witness ==
    /\ args.cmd = "list"
    /\ Len(reqs) = 3
    /\ resps[1].ok /\ resps[2].ok
    /\ FailedAt(3)
    /\ exitCode = Some(1)

(***************************************************************************)
(* C14: the order of an update or delete.                                  *)
(***************************************************************************)
UpdateOrDelete == args.cmd \in {"update", "delete"}

\* the answer to request 2 resolved to exactly one record: the record asked
\* for by id, the only match of the name/type query, or the one of several
\* matches whose id was typed at the record-id prompt
ResolvedToOne ==
    /\ Len(resps) >= 2 /\ resps[2].ok
    /\ reqs[2].method = "GET"
    /\ rid # None /\ current # None
    /\ \/ /\ reqs[2].endpoint = "dns_record"
          /\ reqs[2].rid = rid
          /\ resps[2].result = current
       \/ /\ reqs[2].endpoint = "dns_records"
          /\ resps[2].result = <<current[1]>>
          /\ rid = Some(current[1].id)
       \/ /\ reqs[2].endpoint = "dns_records"
          /\ Len(resps[2].result) > 1
          /\ \E k \in 1..Len(resps[2].result) : resps[2].result[k] = current[1]
          /\ rid = Some(current[1].id)
          /\ Len(prompts) >= 1 /\ prompts[1].kind = "record_id"
          /\ prompts[1].line # None
          /\ TrimmedChoice(prompts[1].line[1]) = rid[1]

\* the confirmation gate was passed: --yes, or the last prompt was the
\* confirmation and its answer affirmative
GatePassed(ps) ==
    \/ args.yes
    \/ /\ Len(ps) >= 1
       /\ ps[Len(ps)].kind = "confirm"
       /\ ps[Len(ps)].line # None
       /\ ps[Len(ps)].line[1] \in AffirmativeLines

ZoneLookedUp ==
    /\ Len(resps) >= 1 /\ resps[1].ok /\ resps[1].result # <<>>
    /\ reqs[1].endpoint = "zones"
    /\ zid = Some(resps[1].result[1].id)

C14_MutationLast ==
    UpdateOrDelete =>
        \A i \in 1..Len(reqs) :
            reqs[i].method \in Mutating =>
                /\ i = Len(reqs) /\ i = 3
                /\ ZoneLookedUp
                /\ ResolvedToOne
                /\ GatePassed(prompts)
                /\ reqs[i].method = (IF args.cmd = "update" THEN "PUT" ELSE "DELETE")
                /\ reqs[i].endpoint = "dns_record"
                /\ reqs[i].zid = zid
                /\ reqs[i].rid = rid

\* a step that issues a request issues one; a step that issues the mutating
\* request starts after the lookups and the gate, and a step that asks for the
\* confirmation starts after the lookups
C14_StepOrder ==
    UpdateOrDelete =>
        /\ Len(reqs') <= Len(reqs) + 1
        /\ (Len(reqs') > Len(reqs) /\ reqs'[Len(reqs')].method \in Mutating) =>
              /\ ZoneLookedUp
              /\ ResolvedToOne
              /\ GatePassed(prompts)
              /\ prompts' = prompts
              /\ ~MutatingIssued
        /\ (Len(prompts') > Len(prompts) /\ prompts'[Len(prompts')].kind = "confirm") =>
              /\ ZoneLookedUp
              /\ ResolvedToOne
              /\ reqs' = reqs
        /\ (Len(reqs') > Len(reqs) /\ reqs'[Len(reqs')].endpoint # "zones") =>
              ZoneLookedUp

\* C14: in update and delete a mutating request is issued only after the zone
\* lookup succeeded, then find_record resolved to exactly one record, then
\* the confirmation gate was passed; it is the only mutating request and the
\* last request of the run, and it goes to the resolved zone and record ids.
C14_LookupResolveConfirmMutate == [](C14_MutationLast) /\ [][C14_StepOrder]_vars

\* a delete resolved by the record-id prompt, confirmed, and issued
C14_Witness ==
    /\ args.cmd = "delete"
    /\ ~args.yes
    /\ Len(prompts) = 2
    /\ prompts[1].kind = "record_id" /\ prompts[2].kind = "confirm"
    /\ Len(reqs) = 3
    /\ reqs[3].method = "DELETE"
    /\ reqs[3].rid = Some("r2")
    /\ reqs[3].zid = Some("z2")

(***************************************************************************)
(* C15: the record names that add, update and delete send.                 *)
(***************************************************************************)
\* n is the zone name or ends in "." followed by the zone name
InZone(n) ==
    \/ n = "example.com"
    \/ \E k \in 1..Len(n) : SubSeq(n, k, Len(n)) = ".example.com"

\* the names sent so far: the name parameter of a record query and the name
\* field of a payload
SentNames ==
    {reqs[i].params[1].name :
        i \in {j \in 1..Len(reqs) : /\ reqs[j].endpoint = "dns_records"
                                    /\ reqs[j].method = "GET"
                                    /\ reqs[j].params # None
                                    /\ "name" \in DOMAIN reqs[j].params[1]}}
    \cup {reqs[i].payload[1].name :
            i \in {j \in 1..Len(reqs) : reqs[j].payload # None}}

ReportedPages(i) ==
    IF resps[i].total_pages = <<>> THEN 1 ELSE resps[i].total_pages[1]

\* request i of a listing is the request for page i - 1
PageOf(i) == i - 1

MaxOf(a, b) == IF a >= b THEN a ELSE b

C16_PagesUntilCovered ==
    args.cmd = "list" =>
        /\ \A i \in 2..Len(reqs) :
             /\ reqs[i].endpoint = "dns_records"
             /\ reqs[i].params[1].page = PageOf(i)
        /\ \A i \in 2..Len(resps) :
             resps[i].ok =>
                IF ReportedPages(i) <= PageOf(i)
                THEN i = Len(reqs) /\ pc = "exit" /\ exitCode = Some(0)
                ELSE i < Len(reqs) \/ (pc = "paginate" /\ page = PageOf(i) + 1)
        /\ Len(reqs) - 1 <= MaxOf(1, MaxPages)

\* C16: with successful responses and total_pages at most MaxPages, possibly
\* different from one response to the next, paginate_records asks for pages
\* 1, 2, 3, ... in steps of one, stops at the first response whose
\* total_pages (1 when missing) is at most the page just asked for, has then
\* made at most max(1, MaxPages) requests, and the run ends.
C16_PaginateTerminates ==
    /\ [](C16_PagesUntilCovered)
    /\ (args.cmd = "list") ~> (pc = "exit")

\* total_pages went 3, 2, 0: the loop stopped at page 3 on the 0
C16_Witness ==
    /\ args.cmd = "list"
    /\ Len(resps) = 4
    /\ resps[2].ok /\ resps[3].ok /\ resps[4].ok
    /\ resps[2].total_pages = <<3>>
    /\ resps[3].total_pages = <<3>>
    /\ resps[4].total_pages = <<0>>
    /\ pc = "exit" /\ exitCode = Some(0)

(***************************************************************************)
(* C17: the proxied field of an outgoing payload.                          *)
(***************************************************************************)
\* the payloads built or sent so far
Payloads ==
    {reqs[i].payload[1] : i \in {j \in 1..Len(reqs) : reqs[j].payload # None}}
    \cup (IF payload = <<>> THEN {} ELSE {payload[1]})

HasProxied(p) == "proxied" \in DOMAIN p

\* C17: a create or update payload has a proxied field only if its type is A,
\* AAAA or CNAME, wherever the value would have come from; an update without
\* the proxied flag of a record whose proxied value is not a boolean sends no
\* proxied field, whatever the type.
C17_ProxiedOnlyWhenProxiable ==
    /\ \A p \in Payloads : HasProxied(p) => p.type \in {"A", "AAAA", "CNAME"}
    /\ \A p \in Payloads : p.type \in {"TXT", ""} => ~HasProxied(p)
    /\ (/\ args.cmd = "update"
        /\ args.proxied = <<>>
        /\ current # <<>>
        /\ current[1].proxied = <<>>) => \A p \in Payloads : ~HasProxied(p)
    /\ \A i \in 1..Len(reqs) : reqs[i].payload # None <=> reqs[i].method \in {"POST", "PUT"}

\* an update by id that turns the TXT record r3, which has no boolean proxied
\* value, into an A record, without the proxied flag
C17_Witness ==
    /\ args.cmd = "update"
    /\ args.rid = Some("r3")
    /\ args.rtype = Some("a")
    /\ args.proxied = <<>>
    /\ Len(reqs) = 3
    /\ reqs[3].method = "PUT"
    /\ reqs[3].payload[1].type = "A"
    /\ ~HasProxied(reqs[3].payload[1])
====
